---- MODULE Spec2Model ----
(***************************************************************************)
(* A model of the uhcut timeline editor (www/script.js, the current copy   *)
(* of the engine): the timeline data model, the undo/redo history, the     *)
(* thumbnail capture queue and the silence removal tool.                   *)
(*                                                                         *)
(* Time is counted in units of 0.05 s, the epsilon of the split guard, so  *)
(* that every comparison of the code is a comparison of integers.          *)
(* Volumes are percentages (1.0 is 100).                                   *)
(***************************************************************************)
EXTENDS Integers, Sequences, FiniteSets, TLC

\* ------------------------------------------------------------- bounds ---
MaxDur == 4          \* duration of the media files the user imports
MaxOps == 4          \* user commands in one behaviour of Spec
MaxClips == 3        \* clips imported in one behaviour
MaxTasks == 2        \* thumbnail requests in one behaviour
DetSamples == 5      \* samples of the buffer the silence scan is run on
DetOffset == 3       \* largest offset of the scanned clip window
DetSpan == 10        \* largest duration of the scanned clip window
SplitOps == 7        \* user commands in one behaviour of SpecSplit
CapOps == 7          \* user commands in one behaviour of SpecCap
SilenceSamples == 6  \* samples of the media the silence tool is used on
SilenceOps == 5      \* user commands in one behaviour of SpecSilence
ClockOps == 2        \* seeks in one behaviour of SpecClock
ClockOffset == 2     \* media time at which the clip of SpecClock was split off
PressureThumbs == 52 \* thumbnails of the clip of SpecPressure
ResumeThumbs == 3    \* thumbnails of the clip of SpecResume
SyncOps == 4         \* user commands in one behaviour of SpecSync
MaxTime == 3         \* the playhead position at which the clock stops

\* --------------------------------------------------- program constants ---
HistoryCap == 50     \* saveState: if (historyStack.length > 50) shift()
SplitEps == 1        \* tool-split: relTime > 0.05 && relTime < duration - 0.05
InitialZoom == 20    \* state.zoom
MinZoom == 1         \* setZoom: Math.max(1, Math.min(200, newZoom))
MaxZoom == 200
SamplePeriod == 2    \* 1 / buffer.sampleRate, in time units
WindowSize == 1      \* windowSize = Math.floor(buffer.sampleRate * 0.02), in samples
PaddingSamples == 1  \* paddingSamples = Math.floor(padding * buffer.sampleRate)
MinSpeechSamples == 1 \* minSpeechDur * buffer.sampleRate
SyncTolerance == 6   \* syncMedia: Math.abs(v.currentTime - clipTime) > 0.3
PortTolerance == 2   \* Player.syncMedia: Math.abs(v.currentTime - clipTime) > 0.1
ThumbStep == 100     \* drawThumbnails: thumbWidth / state.zoom = 100 / 20 seconds
QueueBound == 50     \* src/script.js: if (thumbQueue.length > 50)
DriveWindow == 10    \* Player.renderLoop: Math.abs(newTime - currentTime) < 0.5

VARIABLES
    media,              \* state.media: ids of the imported media items
    tracks,             \* state.tracks: [video: Clip[], audio: <<Clip[], Clip[]>>]
    playbackTime,       \* state.playbackTime
    isPlaying,          \* state.isPlaying
    zoom,               \* state.zoom
    selectedClipId,     \* state.selectedClipId
    historyStack,       \* historyStack: JSON strings, oldest first
    redoStack,          \* redoStack
    isDragging,         \* drag state of the timeline interaction
    dragClipId,
    dragOriginalStart,
    now,                \* Date.now()
    rnd,                \* count of Math.random() suffixes drawn so far
    lastOp,             \* the handler that ran last, with its inputs
    pre,                \* the editor state before the handler that ran last
    ops,                \* number of user commands left in this behaviour
    thumbQueue,         \* thumbQueue: tasks {url, time, el, cacheKey}, oldest first
    isProcessingThumbs, \* the busy flag of the capture queue
    thumbCache,         \* thumbCache: cacheKey -> captured frame
    thumbVideo,         \* the shared capture element: src, currentTime, readyState >= 2
    pending,            \* tasks whose seek of thumbVideo has not been answered yet
    listeners,          \* event listeners registered on thumbVideo, oldest first
    timers,             \* pending setTimeout(processThumbQueue) callbacks
    attached,           \* thumbnail elements that are in the document
    background,         \* el -> the frame shown as its background image
    nextTask,           \* number of thumbnail requests made so far
    started,            \* the tasks a capture was started for (seek or fast path)
    failed,             \* the tasks whose capture thumbVideo answered with 'error'
    detection,          \* one run of the silence scan: its window, its samples, its result
    silenceJob,         \* removeSilenceTool calls that wait for the decoded buffer
    waveformCache,      \* waveformCache: ids of the media whose buffer is decoded
    mainVideo,          \* elements.mainVideo: src, currentTime, paused, style.opacity = 1,
                        \* readyState > 2
    audioPool,          \* audioPool: clip id -> the audio element made for it
    syncPass,           \* what the last syncMedia() call, or the last pause, created,
                        \* removed and threw
    lastFrameTime       \* Player.lastFrameTime: 0, or 1 when a frame has set it

editorVars == <<media, tracks, playbackTime, isPlaying, zoom, selectedClipId,
                historyStack, redoStack, isDragging, dragClipId,
                dragOriginalStart, now, rnd, lastOp, pre, ops>>

thumbVars == <<thumbQueue, isProcessingThumbs, thumbCache, thumbVideo, pending,
               listeners, timers, attached, background, nextTask, started, failed>>

silenceVars == <<detection, silenceJob, waveformCache>>

syncVars == <<mainVideo, audioPool, syncPass, lastFrameTime>>

vars == <<editorVars, thumbVars, silenceVars, syncVars>>

\* --------------------------------------------------------------- values ---
NullId == <<"null", 0, 0>>

Max(a, b) == IF a >= b THEN a ELSE b
Min(a, b) == IF a <= b THEN a ELSE b

\* The files the user can import; element.duration || 0 is 0 for a file
\* whose metadata carries no duration.
Files ==
    { [id |-> "v", type |-> "video", duration |-> MaxDur],
      [id |-> "a", type |-> "audio", duration |-> MaxDur],
      [id |-> "z", type |-> "audio", duration |-> 0] }

\* The keys of a clip object, in the order JSON.stringify writes them.
ClipKeyOrder ==
    <<"id", "mediaId", "startTime", "duration", "offset", "type", "muted",
      "volume", "stabilized">>

EmptyTracks == [video |-> <<>>, audio |-> <<<<>>, <<>>>>]

\* The lanes, in the order findClipLocation searches them.
Lanes == <<"video", "audio0", "audio1">>

LaneOf(t, l) ==
    IF l = "video" THEN t.video
    ELSE IF l = "audio0" THEN t.audio[1] ELSE t.audio[2]

WithLane(t, l, clips) ==
    IF l = "video" THEN [t EXCEPT !.video = clips]
    ELSE IF l = "audio0" THEN [t EXCEPT !.audio[1] = clips]
    ELSE [t EXCEPT !.audio[2] = clips]

AudioLane(i) == IF i = 0 THEN "audio0" ELSE "audio1"

Range(s) == { s[i] : i \in DOMAIN s }

AllClips(t) == Range(t.video) \cup Range(t.audio[1]) \cup Range(t.audio[2])

NoLoc == [lane |-> "none", index |-> 0]

\* findClipLocation(id): the first clip with this id, video lane first
FindClipLocation(t, id) ==
    LET hits == SelectSeq(Lanes, LAMBDA l : \E i \in DOMAIN LaneOf(t, l) : LaneOf(t, l)[i].id = id)
    IN  IF hits = <<>> THEN NoLoc
        ELSE [lane |-> hits[1],
              index |-> CHOOSE i \in DOMAIN LaneOf(t, hits[1]) :
                          /\ LaneOf(t, hits[1])[i].id = id
                          /\ \A j \in 1..(i - 1) : LaneOf(t, hits[1])[j].id # id]

ClipAt(t, loc) == LaneOf(t, loc.lane)[loc.index]

\* the tracks with the clip at loc replaced by c
WithClip(t, loc, c) == WithLane(t, loc.lane, [LaneOf(t, loc.lane) EXCEPT ![loc.index] = c])

\* a removal that drops the newest clip of the lane, whatever its id
DropLast(clips, id) == SubSeq(clips, 1, Len(clips) - 1)

\* Array.prototype.filter(c => c.id !== id)
FilterOut(clips, id) == SelectSeq(clips, LAMBDA c : c.id # id)

\* splice(index, 1)
RemoveAt(clips, i) == SubSeq(clips, 1, i - 1) \o SubSeq(clips, i + 1, Len(clips))

ClipEnd(c) == c.startTime + c.duration

\* obj[k] = v
Put(f, k, v) == [x \in DOMAIN f \cup {k} |-> IF x = k THEN v ELSE f[x]]

\* -------------------------------------------------- JSON.stringify/parse ---
\* A JSON text is modelled by the sequence of its key/value pairs: an object
\* writes only the keys it has.
StringifyClip(c) ==
    LET keys == SelectSeq(ClipKeyOrder, LAMBDA k : k \in DOMAIN c)
    IN  [i \in 1..Len(keys) |-> <<keys[i], c[keys[i]]>>]

ParseClip(s) ==
    [k \in { s[i][1] : i \in DOMAIN s } |->
        s[CHOOSE i \in DOMAIN s : s[i][1] = k][2]]

StringifyLane(clips) == [i \in 1..Len(clips) |-> StringifyClip(clips[i])]
ParseLane(s) == [i \in 1..Len(s) |-> ParseClip(s[i])]

\* JSON.stringify({tracks, selectedClipId, playbackTime, zoom})
Stringify(t, sel, pt, z) ==
    << <<"tracks",
         << <<"video", StringifyLane(t.video)>>,
            <<"audio", <<StringifyLane(t.audio[1]), StringifyLane(t.audio[2])>> >> >> >>,
       <<"selectedClipId", sel>>,
       <<"playbackTime", pt>>,
       <<"zoom", z>> >>

\* JSON.parse of a snapshot
Parse(json) ==
    [tracks |-> [video |-> ParseLane(json[1][2][1][2]),
                 audio |-> <<ParseLane(json[1][2][2][2][1]),
                             ParseLane(json[1][2][2][2][2])>>],
     selectedClipId |-> json[2][2],
     playbackTime |-> json[3][2],
     zoom |-> json[4][2]]

Snapshot == Stringify(tracks, selectedClipId, playbackTime, zoom)

\* ---------------------------------------------- waiting async handlers ---
NoDetection == [offset |-> 0, duration |-> 0, data |-> <<>>, segments |-> <<>>, done |-> TRUE]

InitSilence ==
    /\ detection = NoDetection
    /\ silenceJob = <<>>
    /\ waveformCache = {}

\* The clip object a waiting removeSilenceTool call holds.  While the object
\* is in state.tracks the handlers that change the clip change it; delete
\* takes it out of the tracks and restoreState replaces every clip object,
\* and from then on the call holds an object nobody else changes.
Follow(job, t) ==
    IF ~job.live THEN job
    ELSE LET loc == FindClipLocation(t, job.clip.id)
         IN  IF loc = NoLoc THEN [job EXCEPT !.live = FALSE]
             ELSE [job EXCEPT !.clip = ClipAt(t, loc)]

JobFollows == silenceJob' = [i \in DOMAIN silenceJob |-> Follow(silenceJob[i], tracks')]

JobDetached == silenceJob' = [i \in DOMAIN silenceJob |-> [silenceJob[i] EXCEPT !.live = FALSE]]

\* ------------------------------------------------ playback synchronizer ---
NoPass == [created |-> {}, removed |-> {}, error |-> FALSE]

InitSync ==
    /\ mainVideo = [src |-> "none", currentTime |-> 0, paused |-> TRUE, visible |-> TRUE,
                    ready |-> FALSE]
    /\ audioPool = <<>>
    /\ syncPass = NoPass
    /\ lastFrameTime = 0

\* the clip is under the playhead
Active(c, time) == time >= c.startTime /\ time < c.startTime + c.duration

\* state.tracks.video.find(c => ...): the index of the first active clip, or 0
FindActive(clips, time) ==
    LET hits == { i \in DOMAIN clips : Active(clips[i], time) }
    IN  IF hits = {} THEN 0 ELSE CHOOSE i \in hits : \A j \in hits : i <= j

\* assigning v.src loads the new resource: the element is paused at time 0
\* and has no data yet
WithSrc(v, url) == IF v.src = url THEN v
                   ELSE [v EXCEPT !.src = url, !.currentTime = 0, !.paused = TRUE,
                                  !.ready = FALSE]

\* if (Math.abs(v.currentTime - clipTime) > 0.3) v.currentTime = clipTime
WithTime(v, clipTime) ==
    IF v.currentTime - clipTime > SyncTolerance \/ clipTime - v.currentTime > SyncTolerance
    THEN [v EXCEPT !.currentTime = clipTime] ELSE v

\* syncMedia, the video part.  media.url of a media that is not in
\* state.media is a TypeError, which ends the call.
SyncVideo(v, t, med, time, playing) ==
    LET i == FindActive(t.video, time)
        videoClip == t.video[i]
    IN  IF i = 0 THEN [video |-> [v EXCEPT !.visible = FALSE, !.paused = TRUE], error |-> FALSE]
        ELSE IF videoClip.mediaId \notin med THEN [video |-> v, error |-> TRUE]
        ELSE [video |-> [WithTime(WithSrc(v, videoClip.mediaId),
                                  time - videoClip.startTime + videoClip.offset)
                           EXCEPT !.visible = TRUE, !.paused = ~playing],
              error |-> FALSE]

\* activeClips: the active clips of all audio tracks, track by track
ActiveClips(t, time) ==
    SelectSeq(t.audio[1], LAMBDA c : Active(c, time)) \o
    SelectSeq(t.audio[2], LAMBDA c : Active(c, time))

\* a pass that keeps the elements of the clips that are not active any more
KeepInactive(pool, activeClips) == pool

\* Cleanup inactive: the pool without the ids that no active clip has
Cleanup(pool, activeClips) ==
    [id \in { k \in DOMAIN pool : \E i \in DOMAIN activeClips : activeClips[i].id = k }
        |-> pool[id]]

\* activeClips.forEach: the pool and the record of the pass after the clips
\* from index i on; new Audio(media.url) of a missing media throws
RECURSIVE SyncAudio(_, _, _, _, _, _)
SyncAudio(pool, pass, activeClips, i, med, playing) ==
    IF i > Len(activeClips) THEN [pool |-> pool, pass |-> pass]
    ELSE LET clip == activeClips[i]
         IN  IF clip.id \in DOMAIN pool
             THEN SyncAudio([pool EXCEPT ![clip.id].paused = ~playing], pass,
                            activeClips, i + 1, med, playing)
             ELSE IF clip.mediaId \notin med
             THEN [pool |-> pool, pass |-> [pass EXCEPT !.error = TRUE]]
             ELSE SyncAudio(Put(pool, clip.id, [src |-> clip.mediaId, paused |-> ~playing]),
                            [pass EXCEPT !.created = @ \cup {clip.id}],
                            activeClips, i + 1, med, playing)

\* syncMedia()
SyncMedia(v, pool, t, med, time, playing) ==
    LET video == SyncVideo(v, t, med, time, playing)
        activeClips == ActiveClips(t, time)
        cleaned == Cleanup(pool, activeClips)
        removed == { [id |-> k, paused |-> TRUE, connected |-> FALSE] :
                        k \in DOMAIN pool \ DOMAIN cleaned }
        audio == SyncAudio(cleaned, [NoPass EXCEPT !.removed = removed],
                           activeClips, 1, med, playing)
    IN  IF video.error
        THEN [mainVideo |-> v, audioPool |-> pool, syncPass |-> [NoPass EXCEPT !.error = TRUE]]
        ELSE [mainVideo |-> video.video, audioPool |-> audio.pool, syncPass |-> audio.pass]

\* a handler that ends with syncMedia(), run on the state the handler leaves
Synced ==
    LET after == SyncMedia(mainVideo, audioPool, tracks', media', playbackTime', isPlaying')
    IN  /\ mainVideo' = after.mainVideo
        /\ audioPool' = after.audioPool
        /\ syncPass' = after.syncPass
        /\ UNCHANGED lastFrameTime

\* ----------------------------------------------------------- history ---
\* saveState() as src/script.js has it: every call pushes, equal top or not
SaveStateAlways(h, r, snapshot) ==
    LET pushed == Append(h, snapshot)
    IN  [historyStack |-> IF Len(pushed) > HistoryCap THEN Tail(pushed) ELSE pushed,
         redoStack |-> <<>>]

\* saveState() without the shift() that enforces the cap
SaveStateNoCap(h, r, snapshot) ==
    IF Len(h) > 0 /\ h[Len(h)] = snapshot
    THEN [historyStack |-> h, redoStack |-> r]
    ELSE [historyStack |-> Append(h, snapshot), redoStack |-> <<>>]

\* a history that pushes the live state object itself: every entry is that
\* one object, and shows what the newest entry shows
SaveStateShared(h, r, snapshot) ==
    [historyStack |-> [i \in 1..(Len(h) + 1) |-> snapshot], redoStack |-> <<>>]

\* saveState() without redoStack.length = 0
SaveStateKeepRedo(h, r, snapshot) ==
    IF Len(h) > 0 /\ h[Len(h)] = snapshot
    THEN [historyStack |-> h, redoStack |-> r]
    ELSE LET pushed == Append(h, snapshot)
         IN  [historyStack |-> IF Len(pushed) > HistoryCap THEN Tail(pushed) ELSE pushed,
              redoStack |-> r]

\* saveState(): the stacks after a call that serialises `snapshot`.
SaveState(h, r, snapshot) ==
    IF Len(h) > 0 /\ h[Len(h)] = snapshot
    THEN [historyStack |-> h, redoStack |-> r]
    ELSE LET pushed == Append(h, snapshot)
         IN  [historyStack |-> IF Len(pushed) > HistoryCap THEN Tail(pushed) ELSE pushed,
              redoStack |-> <<>>]

Saved == SaveState(historyStack, redoStack, Snapshot)

\* seek(time)
Seek(time) == Max(0, time)

\* shift() where the code has pop(): drops the oldest entry
PopFront(s) == Tail(s)

\* the oldest entry where the code takes the newest
Oldest(s) == s[1]

Pop(s) == SubSeq(s, 1, Len(s) - 1)
Top(s) == s[Len(s)]

\* The whole editor state, as the claims compare it.
Editor ==
    [tracks |-> tracks, selectedClipId |-> selectedClipId,
     playbackTime |-> playbackTime, zoom |-> zoom,
     historyStack |-> historyStack, redoStack |-> redoStack]

NoPre == [tracks |-> EmptyTracks, selectedClipId |-> NullId, playbackTime |-> 0 - 1,
          zoom |-> 0, historyStack |-> <<>>, redoStack |-> <<>>]

Op(name) == [op |-> name, id |-> NullId, time |-> 0, file |-> "none", prev |-> lastOp.op]

\* restoreState(json), with the seek it ends with
RestoreState(json) ==
    LET snapshot == Parse(json)
    IN  /\ tracks' = snapshot.tracks
        /\ selectedClipId' = snapshot.selectedClipId
        /\ zoom' = snapshot.zoom
        /\ playbackTime' = Seek(snapshot.playbackTime)

\* undo()
Undo ==
    /\ ops > 0
    /\ Len(historyStack) > 0
    /\ redoStack' = Append(redoStack, Snapshot)
    /\ RestoreState(Top(historyStack))
    /\ historyStack' = Pop(historyStack)
    /\ lastOp' = Op("undo")
    /\ pre' = Editor
    /\ ops' = ops - 1
    /\ UNCHANGED thumbVars
    /\ UNCHANGED <<media, isPlaying, isDragging, dragClipId, dragOriginalStart, now, rnd>>
    /\ UNCHANGED <<detection, waveformCache>>
    /\ JobDetached
    /\ Synced

\* redo()
Redo ==
    /\ ops > 0
    /\ Len(redoStack) > 0
    /\ historyStack' = Append(historyStack, Snapshot)
    /\ RestoreState(Top(redoStack))
    /\ redoStack' = Pop(redoStack)
    /\ lastOp' = Op("redo")
    /\ pre' = Editor
    /\ ops' = ops - 1
    /\ UNCHANGED thumbVars
    /\ UNCHANGED <<media, isPlaying, isDragging, dragClipId, dragOriginalStart, now, rnd>>
    /\ UNCHANGED <<detection, waveformCache>>
    /\ JobDetached
    /\ Synced

\* undo() when historyStack is empty: the early return
UndoEmpty ==
    /\ ops > 0
    /\ Len(historyStack) = 0
    /\ lastOp' = Op("undoEmpty")
    /\ pre' = Editor
    /\ ops' = ops - 1
    /\ UNCHANGED <<tracks, selectedClipId, playbackTime, zoom, historyStack, redoStack>>
    /\ UNCHANGED <<media, isPlaying, isDragging, dragClipId, dragOriginalStart, now, rnd>>
    /\ UNCHANGED <<thumbVars, silenceVars, syncVars>>

\* redo() when redoStack is empty: the early return
RedoEmpty ==
    /\ ops > 0
    /\ Len(redoStack) = 0
    /\ lastOp' = Op("redoEmpty")
    /\ pre' = Editor
    /\ ops' = ops - 1
    /\ UNCHANGED <<tracks, selectedClipId, playbackTime, zoom, historyStack, redoStack>>
    /\ UNCHANGED <<media, isPlaying, isDragging, dragClipId, dragOriginalStart, now, rnd>>
    /\ UNCHANGED <<thumbVars, silenceVars, syncVars>>

\* ------------------------------------------------------ timeline model ---
\* the clip object addClipToTimeline and addToTimelineSmart build
NewClip(f, id, startTime) ==
    [id |-> id, mediaId |-> f.id, startTime |-> startTime, duration |-> f.duration,
     offset |-> 0, type |-> f.type, muted |-> FALSE, volume |-> 100]

\* 'clip_' + Date.now() + Math.random()...: the random suffix makes the id fresh
RandomId(prefix, n) == <<prefix, 0, n>>

\* 'clip_' + Date.now(), 'audio_' + Date.now()
StampId(prefix, stamp) == <<prefix, stamp, 0>>

\* checkCollision(trackClips, newClip)
CheckCollision(trackClips, newClip) ==
    \E i \in DOMAIN trackClips :
        /\ trackClips[i].id # newClip.id
        /\ ~(\/ newClip.startTime >= ClipEnd(trackClips[i])
             \/ ClipEnd(newClip) <= trackClips[i].startTime)

\* a lane choice that goes back to track 0 when track 1 collides as well
TargetTrackIndexFree(t, clip) ==
    IF CheckCollision(t.audio[1], clip) /\ ~CheckCollision(t.audio[2], clip) THEN 1 ELSE 0

\* addClipToTimeline: the audio lane the new clip is pushed to
TargetTrackIndex(t, clip) == IF CheckCollision(t.audio[1], clip) THEN 1 ELSE 0

\* reduce((a, b) => a.startTime + a.duration > b.startTime + b.duration ? a : b)
LaneEnd(clips) ==
    IF clips = <<>> THEN 0
    ELSE LET ends == { ClipEnd(clips[i]) : i \in DOMAIN clips }
         IN  CHOOSE e \in ends : \A x \in ends : x <= e

Push(t, l, clip) == WithLane(t, l, Append(LaneOf(t, l), clip))

\* processFile(file, startTime) -> onloadedmetadata -> addClipToTimeline
AddClipToTimeline(f, startTime) ==
    LET clip == NewClip(f, RandomId("clip", rnd + 1), Max(0, startTime))
        lane == IF f.type = "video" THEN "video"
                ELSE AudioLane(TargetTrackIndex(tracks, clip))
    IN  /\ ops > 0
        /\ rnd < MaxClips
        /\ media' = media \cup {f.id}
        /\ historyStack' = Saved.historyStack
        /\ redoStack' = Saved.redoStack
        /\ tracks' = Push(tracks, lane, clip)
        /\ rnd' = rnd + 1
        /\ lastOp' = [Op("addClip") EXCEPT !.id = clip.id, !.time = startTime, !.file = f.id]
        /\ pre' = Editor
        /\ ops' = ops - 1
        /\ UNCHANGED thumbVars
        /\ UNCHANGED <<playbackTime, isPlaying, zoom, selectedClipId, isDragging,
                       dragClipId, dragOriginalStart, now>>
        /\ UNCHANGED <<detection, waveformCache>>
        /\ JobFollows
        /\ UNCHANGED syncVars

\* processFile(file) -> onloadedmetadata -> addToTimelineSmart
AddToTimelineSmart(f) ==
    LET lane == IF f.type = "video" THEN "video" ELSE "audio0"
        clip == NewClip(f, RandomId("clip", rnd + 1), LaneEnd(LaneOf(tracks, lane)))
    IN  /\ ops > 0
        /\ rnd < MaxClips
        /\ media' = media \cup {f.id}
        /\ historyStack' = Saved.historyStack
        /\ redoStack' = Saved.redoStack
        /\ tracks' = Push(tracks, lane, clip)
        /\ rnd' = rnd + 1
        /\ lastOp' = [Op("addSmart") EXCEPT !.id = clip.id, !.file = f.id]
        /\ pre' = Editor
        /\ ops' = ops - 1
        /\ UNCHANGED thumbVars
        /\ UNCHANGED <<playbackTime, isPlaying, zoom, selectedClipId, isDragging,
                       dragClipId, dragOriginalStart, now>>
        /\ UNCHANGED <<detection, waveformCache>>
        /\ JobFollows
        /\ UNCHANGED syncVars

\* click on the empty part of the timeline: deselect and seek.  (A click on
\* a clip selects the clip its mousedown has selected already.)
TimelineClick(time) ==
    /\ ops > 0
    /\ ~isDragging
    /\ selectedClipId' = NullId
    /\ playbackTime' = Seek(time)
    /\ lastOp' = [Op("click") EXCEPT !.time = time]
    /\ pre' = Editor
    /\ ops' = ops - 1
    /\ UNCHANGED thumbVars
    /\ UNCHANGED <<media, tracks, isPlaying, zoom, historyStack, redoStack,
                   isDragging, dragClipId, dragOriginalStart, now, rnd>>
    /\ UNCHANGED <<detection, waveformCache>>
    /\ JobFollows
    /\ Synced

\* handleMouseDown on the element of clip `id`
HandleMouseDown(id) ==
    LET loc == FindClipLocation(tracks, id)
    IN  /\ ops > 0
        /\ ~isDragging
        /\ loc # NoLoc
        /\ isDragging' = TRUE
        /\ dragClipId' = id
        /\ dragOriginalStart' = ClipAt(tracks, loc).startTime
        /\ selectedClipId' = id
        /\ lastOp' = [Op("mouseDown") EXCEPT !.id = id]
        /\ pre' = Editor
        /\ ops' = ops - 1
        /\ UNCHANGED thumbVars
        /\ UNCHANGED <<media, tracks, playbackTime, isPlaying, zoom, historyStack,
                       redoStack, now, rnd>>
        /\ UNCHANGED <<detection, waveformCache>>
        /\ JobFollows
        /\ UNCHANGED syncVars

\* handleMouseMove: the pointer is deltaSec (deltaPx / zoom) from where it went down
HandleMouseMove(deltaSec) ==
    LET loc == FindClipLocation(tracks, dragClipId)
    IN  /\ ops > 0
        /\ isDragging
        /\ dragClipId # NullId
        /\ tracks' = IF loc = NoLoc THEN tracks
                     ELSE WithClip(tracks, loc,
                            [ClipAt(tracks, loc) EXCEPT
                                !.startTime = Max(0, dragOriginalStart + deltaSec)])
        /\ lastOp' = [Op("mouseMove") EXCEPT !.id = dragClipId, !.time = deltaSec]
        /\ pre' = Editor
        /\ ops' = ops - 1
        /\ UNCHANGED thumbVars
        /\ UNCHANGED <<media, playbackTime, isPlaying, zoom, selectedClipId,
                       historyStack, redoStack, isDragging, dragClipId,
                       dragOriginalStart, now, rnd>>
        /\ UNCHANGED <<detection, waveformCache>>
        /\ JobFollows
        /\ UNCHANGED syncVars

\* handleMouseUp: the tracks after the lane change.  target is the index of
\* the audio track under the pointer, or -1 when there is none.
DropOnLane(t, id, target) ==
    LET loc == FindClipLocation(t, id)
    IN  IF /\ loc # NoLoc
           /\ loc.lane # "video"
           /\ target \in {0, 1}
           /\ AudioLane(target) # loc.lane
        THEN Push(WithLane(t, loc.lane, RemoveAt(LaneOf(t, loc.lane), loc.index)),
                  AudioLane(target), ClipAt(t, loc))
        ELSE t

HandleMouseUp(target) ==
    LET moved == DropOnLane(tracks, dragClipId, target)
        saved == SaveState(historyStack, redoStack,
                           Stringify(moved, selectedClipId, playbackTime, zoom))
    IN  /\ ops > 0
        /\ isDragging
        /\ tracks' = moved
        /\ isDragging' = FALSE
        /\ dragClipId' = NullId
        /\ historyStack' = saved.historyStack
        /\ redoStack' = saved.redoStack
        /\ lastOp' = [Op("mouseUp") EXCEPT !.id = dragClipId, !.time = target]
        /\ pre' = Editor
        /\ ops' = ops - 1
        /\ UNCHANGED thumbVars
        /\ UNCHANGED <<media, playbackTime, isPlaying, zoom, selectedClipId,
                       dragOriginalStart, now, rnd>>
        /\ UNCHANGED <<detection, waveformCache>>
        /\ JobFollows
        /\ UNCHANGED syncVars

\* tool-delete
DeleteClip ==
    /\ ops > 0
    /\ selectedClipId # NullId
    /\ historyStack' = Saved.historyStack
    /\ redoStack' = Saved.redoStack
    /\ tracks' = [video |-> FilterOut(tracks.video, selectedClipId),
                  audio |-> <<FilterOut(tracks.audio[1], selectedClipId),
                              FilterOut(tracks.audio[2], selectedClipId)>>]
    /\ selectedClipId' = NullId
    /\ lastOp' = [Op("delete") EXCEPT !.id = selectedClipId]
    /\ pre' = Editor
    /\ ops' = ops - 1
    /\ UNCHANGED thumbVars
    /\ UNCHANGED <<media, playbackTime, isPlaying, zoom, isDragging, dragClipId,
                   dragOriginalStart, now, rnd>>
    /\ UNCHANGED <<detection, waveformCache>>
    /\ JobFollows
    /\ UNCHANGED syncVars

\* a guard that tests the distance from the start of the clip alone
CanSplitFromStart(clip, time) == time - clip.startTime > SplitEps

\* tool-split: the guard on the playhead position inside the clip
CanSplit(clip, time) ==
    /\ time - clip.startTime > SplitEps
    /\ time - clip.startTime < clip.duration - SplitEps

\* a second half that starts where the first half starts in the media
SplitNewClipSameOffset(clip, id, time) ==
    [clip EXCEPT !.id = id,
                 !.startTime = time,
                 !.duration = clip.duration - (time - clip.startTime)]

\* tool-split: {...clip, id, startTime, duration, offset}
SplitNewClip(clip, id, time) ==
    [clip EXCEPT !.id = id,
                 !.startTime = time,
                 !.duration = clip.duration - (time - clip.startTime),
                 !.offset = clip.offset + (time - clip.startTime)]

\* tool-split: the tracks after the split of the clip at loc
SplitTracks(t, loc, id, time) ==
    LET clip == ClipAt(t, loc)
    IN  Push(WithClip(t, loc, [clip EXCEPT !.duration = time - clip.startTime]),
             loc.lane, SplitNewClip(clip, id, time))

\* tool-split
SplitClip ==
    LET loc == FindClipLocation(tracks, selectedClipId)
    IN  /\ ops > 0
        /\ selectedClipId # NullId
        /\ loc # NoLoc
        /\ CanSplit(ClipAt(tracks, loc), playbackTime)
        /\ \E stamp \in {now, now + 1} :
            /\ now' = stamp
            /\ tracks' = SplitTracks(tracks, loc, StampId("clip", stamp), playbackTime)
            /\ lastOp' = [Op("split") EXCEPT !.id = StampId("clip", stamp),
                                           !.time = playbackTime]
        /\ historyStack' = Saved.historyStack
        /\ redoStack' = Saved.redoStack
        /\ pre' = Editor
        /\ ops' = ops - 1
        /\ UNCHANGED thumbVars
        /\ UNCHANGED <<media, playbackTime, isPlaying, zoom, selectedClipId,
                       isDragging, dragClipId, dragOriginalStart, rnd>>
        /\ UNCHANGED <<detection, waveformCache>>
        /\ JobFollows
        /\ UNCHANGED syncVars

\* tool-split when nothing is selected, the selected id is the id of no
\* clip, or the playhead is not inside the clip: the handler returns
SplitRefused ==
    LET loc == FindClipLocation(tracks, selectedClipId)
    IN  /\ ops > 0
        /\ ~(/\ selectedClipId # NullId
             /\ loc # NoLoc
             /\ CanSplit(ClipAt(tracks, loc), playbackTime))
        /\ lastOp' = [Op("splitRefused") EXCEPT !.id = selectedClipId,
                                              !.time = playbackTime]
        /\ pre' = Editor
        /\ ops' = ops - 1
        /\ UNCHANGED thumbVars
        /\ UNCHANGED <<media, tracks, playbackTime, isPlaying, zoom, selectedClipId,
                       historyStack, redoStack, isDragging, dragClipId,
                       dragOriginalStart, now, rnd>>
        /\ UNCHANGED <<detection, waveformCache>>
        /\ JobFollows
        /\ UNCHANGED syncVars

\* extractAudio
ExtractAudio ==
    LET hits == { i \in DOMAIN tracks.video : tracks.video[i].id = selectedClipId }
        i == CHOOSE k \in hits : \A j \in hits : k <= j
        clip == tracks.video[i]
    IN  /\ ops > 0
        /\ selectedClipId # NullId
        /\ hits # {}
        /\ \E stamp \in {now, now + 1} :
            /\ now' = stamp
            /\ tracks' = Push([tracks EXCEPT !.video[i].muted = TRUE], "audio0",
                              [clip EXCEPT !.id = StampId("audio", stamp),
                                           !.type = "audio", !.muted = FALSE])
            /\ lastOp' = [Op("extractAudio") EXCEPT !.id = StampId("audio", stamp)]
        /\ historyStack' = Saved.historyStack
        /\ redoStack' = Saved.redoStack
        /\ pre' = Editor
        /\ ops' = ops - 1
        /\ UNCHANGED thumbVars
        /\ UNCHANGED <<media, playbackTime, isPlaying, zoom, selectedClipId,
                       isDragging, dragClipId, dragOriginalStart, rnd>>
        /\ UNCHANGED <<detection, waveformCache>>
        /\ JobFollows
        /\ UNCHANGED syncVars

\* volume-slider input
VolumeInput(val) ==
    LET loc == FindClipLocation(tracks, selectedClipId)
    IN  /\ ops > 0
        /\ selectedClipId # NullId
        /\ loc # NoLoc
        /\ tracks' = WithClip(tracks, loc, [ClipAt(tracks, loc) EXCEPT !.volume = val])
        /\ lastOp' = [Op("volume") EXCEPT !.id = selectedClipId, !.time = val]
        /\ pre' = Editor
        /\ ops' = ops - 1
        /\ UNCHANGED thumbVars
        /\ UNCHANGED <<media, playbackTime, isPlaying, zoom, selectedClipId,
                       historyStack, redoStack, isDragging, dragClipId,
                       dragOriginalStart, now, rnd>>
        /\ UNCHANGED <<detection, waveformCache>>
        /\ JobFollows
        /\ Synced

\* close-volume-btn click: saveState()
CloseVolume ==
    /\ ops > 0
    /\ historyStack' = Saved.historyStack
    /\ redoStack' = Saved.redoStack
    /\ lastOp' = Op("save")
    /\ pre' = Editor
    /\ ops' = ops - 1
    /\ UNCHANGED thumbVars
    /\ UNCHANGED <<media, tracks, playbackTime, isPlaying, zoom, selectedClipId,
                   isDragging, dragClipId, dragOriginalStart, now, rnd>>
    /\ UNCHANGED <<detection, waveformCache>>
    /\ JobFollows
    /\ UNCHANGED syncVars

\* setZoom(newZoom)
SetZoom(newZoom) ==
    /\ ops > 0
    /\ zoom' = Max(MinZoom, Min(MaxZoom, newZoom))
    /\ lastOp' = [Op("zoom") EXCEPT !.time = newZoom]
    /\ pre' = Editor
    /\ ops' = ops - 1
    /\ UNCHANGED thumbVars
    /\ UNCHANGED <<media, tracks, playbackTime, isPlaying, selectedClipId,
                   historyStack, redoStack, isDragging, dragClipId,
                   dragOriginalStart, now, rnd>>
    /\ UNCHANGED <<detection, waveformCache>>
    /\ JobFollows
    /\ UNCHANGED syncVars

\* --------------------------------------------------- thumbnail pipeline ---
InitThumbs ==
    /\ thumbQueue = <<>>
    /\ isProcessingThumbs = FALSE
    /\ thumbCache = <<>>
    /\ thumbVideo = [src |-> "none", currentTime |-> 0, ready |-> FALSE]
    /\ pending = {}
    /\ listeners = <<>>
    /\ timers = 0
    /\ attached = {}
    /\ background = <<>>
    /\ nextTask = 0
    /\ started = {}
    /\ failed = {}

\* drawThumbnails: media.url + '_' + (Math.round(time * 2) / 2).toFixed(1)
CacheKey(url, time) == <<url, ((time + 5) \div 10) * 10>>

\* a cache that is never hit
NeverCached(cache, key) == FALSE

\* thumbCache[cacheKey] is set
Cached(cache, key) == key \in DOMAIN cache


\* a pipeline that captures during playback as well
NeverSkip(playing) == FALSE

\* processThumbQueue: if (state.isPlaying) { isProcessingThumbs = false; return; }
SkipCapture(playing) == playing

\* the guard without the busy flag
IdleNoFlag(busy, queue) == queue = <<>>

\* processThumbQueue: if (isProcessingThumbs || thumbQueue.length === 0) return
Idle(busy, queue) == busy \/ queue = <<>>

\* the thumbVideo.readyState >= 2 && ... fast path of processThumbQueue
AlreadyPositioned(video, task) ==
    /\ video.src = task.url
    /\ video.ready
    /\ video.currentTime - task.time < 2
    /\ task.time - video.currentTime < 2

\* onSeek of `task`: the state after it has drawn the current frame
OnSeek(st, task) ==
    LET frame == <<st.video.src, st.video.currentTime>>
    IN  [st EXCEPT !.background = Put(st.background, task.el, frame),
                   !.cache = Put(st.cache, task.key, frame),
                   !.busy = FALSE,
                   !.timers = st.timers + 1]

\* onError of `task`
OnError(st, task) == [st EXCEPT !.busy = FALSE, !.timers = st.timers + 1]

\* the listeners of one event run in the order they were added
RECURSIVE RunAll(_, _, _)
RunAll(st, ls, ev) ==
    IF ls = <<>> THEN st
    ELSE RunAll(IF ev = "seeked" THEN OnSeek(st, Head(ls).task)
                ELSE OnError(st, Head(ls).task),
                Tail(ls), ev)

Dispatch(st, ls, ev) == RunAll(st, SelectSeq(ls, LAMBDA l : l.ev = ev), ev)

\* {once: true}: the listeners of the event are removed as they run
Remaining(ls, ev) == SelectSeq(ls, LAMBDA l : l.ev # ev)

ThumbState ==
    [queue |-> thumbQueue, busy |-> isProcessingThumbs, cache |-> thumbCache,
     video |-> thumbVideo, pending |-> pending, listeners |-> listeners,
     timers |-> timers, background |-> background, started |-> started,
     failed |-> failed]

\* processThumbQueue(), run in state st with the elements inDoc in the document
ProcessThumbQueue(st, inDoc) ==
    IF Idle(st.busy, st.queue) THEN st
    ELSE
      LET task == Head(st.queue)
          rest == Tail(st.queue)
          again == IF rest # <<>> THEN st.timers + 1 ELSE st.timers
      IN  IF task.el \notin inDoc
          THEN [st EXCEPT !.queue = rest, !.timers = again]
          ELSE IF Cached(st.cache, task.key)
          THEN [st EXCEPT !.queue = rest, !.timers = again,
                          !.background = Put(st.background, task.el, st.cache[task.key])]
          ELSE IF SkipCapture(isPlaying)
          THEN [st EXCEPT !.queue = rest]
          ELSE
            LET added == [st EXCEPT
                    !.queue = rest,
                    !.busy = TRUE,
                    !.started = {task} \cup st.started,
                    !.listeners = st.listeners \o
                        <<[ev |-> "seeked", task |-> task], [ev |-> "error", task |-> task]>>]
            IN  IF AlreadyPositioned(st.video, task)
                THEN OnSeek(added, task)
                ELSE [added EXCEPT
                        !.video = [src |-> task.url, currentTime |-> st.video.currentTime,
                                   ready |-> st.video.ready /\ st.video.src = task.url],
                        !.pending = st.pending \cup {task.id}]

SetThumbState(st) ==
    /\ thumbQueue' = st.queue
    /\ isProcessingThumbs' = st.busy
    /\ thumbCache' = st.cache
    /\ thumbVideo' = st.video
    /\ pending' = st.pending
    /\ listeners' = st.listeners
    /\ timers' = st.timers
    /\ background' = st.background
    /\ started' = st.started
    /\ failed' = st.failed

\* drawThumbnails creates an element and, when its key is not cached,
\* calls queueThumbnail(url, time, el, cacheKey)
QueueThumbnail(url, time) ==
    LET task == [id |-> nextTask + 1, url |-> url, time |-> time,
                 el |-> nextTask + 1, key |-> CacheKey(url, time)]
    IN  /\ nextTask < MaxTasks
        /\ ~Cached(thumbCache, task.key)
        /\ nextTask' = nextTask + 1
        /\ attached' = attached \cup {task.el}
        /\ SetThumbState(ProcessThumbQueue(
              [ThumbState EXCEPT !.queue = Append(thumbQueue, task)],
              attached \cup {task.el}))
        /\ UNCHANGED editorVars
        /\ UNCHANGED silenceVars
        /\ UNCHANGED syncVars

\* drawThumbnails: what one iteration of the loop does with thumbnail k, which
\* shows the media at (k - 1) * thumbWidth / state.zoom
QueueOne(st, url, first, k, inDoc) ==
    LET time == (k - 1) * ThumbStep
        task == [id |-> first + k, url |-> url, time |-> time,
                 el |-> first + k, key |-> CacheKey(url, time)]
    IN  IF Cached(st.cache, task.key)
        THEN [st EXCEPT !.background = Put(@, task.el, st.cache[task.key])]
        ELSE ProcessThumbQueue([st EXCEPT !.queue = Append(@, task)], inDoc)

\* drawThumbnails: the iterations lo..hi of the loop, in order
RECURSIVE QueueAll(_, _, _, _, _, _)
QueueAll(st, url, first, lo, hi, inDoc) ==
    IF lo > hi THEN st
    ELSE IF lo = hi THEN QueueOne(st, url, first, lo, inDoc)
    ELSE LET mid == (lo + hi) \div 2
             half == QueueAll(st, url, first, lo, mid, inDoc)
         IN  IF DOMAIN half = DOMAIN st
             THEN QueueAll(half, url, first, mid + 1, hi, inDoc)
             ELSE half

\* drawThumbnails(container, clip, media) of a clip that is n thumbnails wide
DrawThumbnails(url, n) ==
    LET inDoc == attached \cup ((nextTask + 1)..(nextTask + n))
    IN  /\ nextTask = 0
        /\ nextTask' = nextTask + n
        /\ attached' = inDoc
        /\ SetThumbState(QueueAll(ThumbState, url, nextTask, 1, n, inDoc))
        /\ UNCHANGED editorVars
        /\ UNCHANGED silenceVars
        /\ UNCHANGED syncVars

\* a setTimeout(processThumbQueue) callback runs
TimerFires ==
    /\ timers > 0
    /\ SetThumbState(ProcessThumbQueue([ThumbState EXCEPT !.timers = timers - 1], attached))
    /\ UNCHANGED <<attached, nextTask>>
    /\ UNCHANGED editorVars
    /\ UNCHANGED silenceVars
    /\ UNCHANGED syncVars

\* thumbVideo answers the seek in flight: it is positioned and fires 'seeked'
SinkSeeked ==
    /\ pending # {}
    /\ \E t \in pending :
         \E task \in { l.task : l \in Range(listeners) } :
           /\ task.id = t
           /\ \A u \in pending : u <= t
           /\ SetThumbState(
                Dispatch([ThumbState EXCEPT
                            !.video = [src |-> thumbVideo.src, currentTime |-> task.time,
                                       ready |-> TRUE],
                            !.pending = {},
                            !.listeners = Remaining(listeners, "seeked")],
                         listeners, "seeked"))
    /\ UNCHANGED <<attached, nextTask>>
    /\ UNCHANGED editorVars
    /\ UNCHANGED silenceVars
    /\ UNCHANGED syncVars

\* thumbVideo fails to load or decode its source and fires 'error'
SinkError ==
    /\ thumbVideo.src # "none"
    /\ SetThumbState(
         Dispatch([ThumbState EXCEPT
                     !.video = [thumbVideo EXCEPT !.ready = FALSE],
                     !.pending = {},
                     !.failed = failed \cup pending,
                     !.listeners = Remaining(listeners, "error")],
                  listeners, "error"))
    /\ UNCHANGED <<attached, nextTask>>
    /\ UNCHANGED editorVars
    /\ UNCHANGED silenceVars
    /\ UNCHANGED syncVars

\* renderClipContent empties a clip element: its thumbnail elements leave the document
DetachElement(el) ==
    /\ el \in attached
    /\ attached' = attached \ {el}
    /\ UNCHANGED <<thumbQueue, isProcessingThumbs, thumbCache, thumbVideo, pending,
                   listeners, timers, background, nextTask, started, failed>>
    /\ UNCHANGED editorVars
    /\ UNCHANGED silenceVars
    /\ UNCHANGED syncVars

\* play-pause-btn click, on the way to paused:
\* Object.values(audioPool).forEach(a => a.pause()).  The values of audioPool
\* are the items {audio, source, gain}, which have no pause: the first item
\* is a TypeError that ends the handler, and no element is paused.
PausePool ==
    /\ audioPool' = audioPool
    /\ syncPass' = [NoPass EXCEPT !.error = isPlaying /\ DOMAIN audioPool # {}]
    /\ UNCHANGED lastFrameTime

\* play-pause-btn click
TogglePlay ==
    /\ isPlaying' = ~isPlaying
    /\ lastOp' = Op("playPause")
    /\ pre' = Editor
    /\ UNCHANGED <<media, tracks, playbackTime, zoom, selectedClipId, historyStack,
                   redoStack, isDragging, dragClipId, dragOriginalStart, now, rnd, ops>>
    /\ UNCHANGED thumbVars
    /\ UNCHANGED <<detection, waveformCache>>
    /\ JobFollows
    /\ mainVideo' = IF isPlaying THEN [mainVideo EXCEPT !.paused = TRUE] ELSE mainVideo
    /\ PausePool

\* renderLoop while playing: the clock advances by the time since the last
\* frame, then syncMedia()
Tick(dt) ==
    /\ isPlaying
    /\ playbackTime < MaxTime
    /\ playbackTime' = playbackTime + dt
    /\ lastOp' = [Op("tick") EXCEPT !.time = dt]
    /\ pre' = Editor
    /\ UNCHANGED <<media, tracks, isPlaying, zoom, selectedClipId, historyStack,
                   redoStack, isDragging, dragClipId, dragOriginalStart, now, rnd, ops>>
    /\ UNCHANGED thumbVars
    /\ UNCHANGED <<detection, waveformCache>>
    /\ JobFollows
    /\ Synced

\* ------------------------------------- the player of the Angular port ---
\* if (Math.abs(v.currentTime - clipTime) > 0.1) v.currentTime = clipTime
WithTimePort(v, clipTime) ==
    IF v.currentTime - clipTime > PortTolerance \/ clipTime - v.currentTime > PortTolerance
    THEN [v EXCEPT !.currentTime = clipTime] ELSE v

\* Player.syncMedia, the video part
PlayerSyncVideo(v, t, med, time, playing, videoDriving) ==
    LET i == FindActive(t.video, time)
        videoClip == t.video[i]
        loaded == IF videoClip.mediaId \in med THEN WithSrc(v, videoClip.mediaId) ELSE v
        placed == IF videoDriving THEN loaded
                  ELSE WithTimePort(loaded, time - videoClip.startTime + videoClip.offset)
    IN  IF i = 0 THEN [v EXCEPT !.visible = FALSE, !.paused = TRUE]
        ELSE [placed EXCEPT !.visible = TRUE, !.paused = ~playing]

\* AudioService.playAudio: if (item.audio.paused) item.audio.play()
PlayAudio(pool, clip) ==
    IF clip.id \in DOMAIN pool THEN [pool EXCEPT ![clip.id].paused = FALSE]
    ELSE Put(pool, clip.id, [src |-> clip.mediaId, paused |-> FALSE])

\* Player.syncMedia: activeClips.forEach, from index i on
RECURSIVE PlayerSyncAudio(_, _, _, _, _)
PlayerSyncAudio(pool, activeClips, i, med, playing) ==
    IF i > Len(activeClips) THEN pool
    ELSE PlayerSyncAudio(IF activeClips[i].mediaId \in med
                         THEN PlayAudio(pool, activeClips[i]) ELSE pool,
                         activeClips, i + 1, med, playing)

\* Player.syncMedia(time, videoDriving)
PlayerSyncMedia(v, pool, t, med, time, playing, videoDriving) ==
    LET activeClips == ActiveClips(t, time)
        cleaned == Cleanup(pool, activeClips)
        after == PlayerSyncAudio(cleaned, activeClips, 1, med, playing)
    IN  [mainVideo |-> PlayerSyncVideo(v, t, med, time, playing, videoDriving),
         audioPool |-> after,
         syncPass |-> [created |-> DOMAIN after \ DOMAIN pool,
                       removed |-> { [id |-> k, paused |-> TRUE, connected |-> FALSE] :
                                       k \in DOMAIN pool \ DOMAIN cleaned },
                       error |-> FALSE]]

\* the effect of the Player constructor: it runs when playbackTime or
\* isPlaying has a new value, and reconciles when the editor is paused
PlayerEffect(v, pool) ==
    LET after == PlayerSyncMedia(v, pool, tracks', media', playbackTime', isPlaying', FALSE)
    IN  IF (playbackTime' # playbackTime \/ isPlaying' # isPlaying) /\ ~isPlaying'
        THEN /\ mainVideo' = after.mainVideo
             /\ audioPool' = after.audioPool
             /\ syncPass' = after.syncPass
        ELSE /\ mainVideo' = v
             /\ audioPool' = pool
             /\ syncPass' = syncPass

\* AudioService.pauseAudio for each active clip
PauseActive(pool, activeClips) ==
    [id \in DOMAIN pool |->
        IF \E i \in DOMAIN activeClips : activeClips[i].id = id
        THEN [pool[id] EXCEPT !.paused = TRUE] ELSE pool[id]]

\* Player.togglePlay, and the effect it sets off
PlayerTogglePlay ==
    /\ isPlaying' = ~isPlaying
    /\ lastOp' = Op("playerToggle")
    /\ pre' = Editor
    /\ UNCHANGED <<media, tracks, playbackTime, zoom, selectedClipId, historyStack,
                   redoStack, isDragging, dragClipId, dragOriginalStart, now, rnd, ops>>
    /\ UNCHANGED thumbVars
    /\ UNCHANGED <<detection, waveformCache>>
    /\ JobFollows
    /\ IF isPlaying
       THEN PlayerEffect([mainVideo EXCEPT !.paused = TRUE],
                         PauseActive(audioPool, ActiveClips(tracks, playbackTime)))
       ELSE PlayerEffect(mainVideo, audioPool)
    /\ UNCHANGED lastFrameTime

\* Timeline click on the empty part: playbackTime.set(Math.max(0, time)),
\* selectedClipId.set(null), and the effect of the player
PlayerSeek(time) ==
    /\ ops > 0
    /\ playbackTime' = Max(0, time)
    /\ selectedClipId' = NullId
    /\ lastOp' = [Op("playerSeek") EXCEPT !.time = time]
    /\ pre' = Editor
    /\ ops' = ops - 1
    /\ UNCHANGED <<media, tracks, isPlaying, zoom, historyStack, redoStack,
                   isDragging, dragClipId, dragOriginalStart, now, rnd>>
    /\ UNCHANGED thumbVars
    /\ UNCHANGED <<detection, waveformCache>>
    /\ JobFollows
    /\ PlayerEffect(mainVideo, audioPool)
    /\ UNCHANGED lastFrameTime

\* the clock of a frame that follows the video element
AlwaysDelta(v, i, newTime, time) == FALSE

\* Player.renderLoop, the video driving logic: the clip under the playhead,
\* !paused, readyState > 2 and Math.abs(newTime - currentTime) < 0.5
VideoDriving(v, i, newTime, time) ==
    /\ i # 0
    /\ ~v.paused
    /\ v.ready
    /\ newTime - time < DriveWindow
    /\ time - newTime < DriveWindow

\* Player.renderLoop: one animation frame, `elapsed` after the frame before.
\* if (!this.lastFrameTime) this.lastFrameTime = timestamp: the first frame
\* while playing measures dt = 0.  While playing, the time of the video
\* element is adopted when the element drives, and otherwise the clock
\* advances by dt; syncMedia follows.  While paused the frame only resets
\* lastFrameTime.
PlayerTick(elapsed) ==
    LET dt == IF lastFrameTime = 0 THEN 0 ELSE elapsed
        i == FindActive(tracks.video, playbackTime)
        videoClip == tracks.video[i]
        newTime == videoClip.startTime + (mainVideo.currentTime - videoClip.offset)
        videoDriving == VideoDriving(mainVideo, i, newTime, playbackTime)
        after == PlayerSyncMedia(mainVideo, audioPool, tracks, media, playbackTime', TRUE,
                                 videoDriving)
    IN  /\ playbackTime < MaxTime
        /\ playbackTime' = IF ~isPlaying THEN playbackTime
                           ELSE IF videoDriving THEN newTime ELSE playbackTime + dt
        /\ IF isPlaying
           THEN /\ mainVideo' = after.mainVideo
                /\ audioPool' = after.audioPool
                /\ syncPass' = after.syncPass
           ELSE UNCHANGED <<mainVideo, audioPool, syncPass>>
        /\ lastFrameTime' = IF isPlaying THEN 1 ELSE 0
        /\ lastOp' = [Op(IF isPlaying THEN "playerTick" ELSE "playerIdle") EXCEPT !.time = dt]
        /\ pre' = Editor
        /\ UNCHANGED <<media, tracks, isPlaying, zoom, selectedClipId, historyStack,
                       redoStack, isDragging, dragClipId, dragOriginalStart, now, rnd, ops>>
        /\ UNCHANGED thumbVars
        /\ UNCHANGED <<detection, waveformCache>>
        /\ JobFollows

\* what the video element does by itself, between the frames
VideoEvent(v) ==
    /\ mainVideo' = v
    /\ lastOp' = Op("video")
    /\ pre' = Editor
    /\ UNCHANGED <<media, tracks, playbackTime, isPlaying, zoom, selectedClipId,
                   historyStack, redoStack, isDragging, dragClipId, dragOriginalStart,
                   now, rnd, ops>>
    /\ UNCHANGED thumbVars
    /\ UNCHANGED <<detection, waveformCache>>
    /\ JobFollows
    /\ UNCHANGED <<audioPool, syncPass, lastFrameTime>>

\* 'canplay': the element has data to play from its position
VideoReady ==
    /\ mainVideo.src # "none"
    /\ ~mainVideo.ready
    /\ VideoEvent([mainVideo EXCEPT !.ready = TRUE])

\* 'waiting': the element has run out of data
VideoWaiting ==
    /\ mainVideo.ready
    /\ VideoEvent([mainVideo EXCEPT !.ready = FALSE])

\* the element plays: its currentTime moves on
VideoPlays(played) ==
    /\ ~mainVideo.paused
    /\ mainVideo.ready
    /\ mainVideo.currentTime + played <= MaxDur
    /\ VideoEvent([mainVideo EXCEPT !.currentTime = @ + played])

\* ------------------------------------------------------------- inputs ---
DropTimes == {0 - 1, 1}
ClickTimes == {MaxDur \div 2}
DragDeltas == {0 - 1, 1}
VolumeValues == {50}
ZoomValues == {30}
ClipIds == { c.id : c \in AllClips(tracks) }

InitEditor(budget) ==
    /\ media = {}
    /\ tracks = EmptyTracks
    /\ playbackTime = 0
    /\ isPlaying = FALSE
    /\ zoom = InitialZoom
    /\ selectedClipId = NullId
    /\ historyStack = <<>>
    /\ redoStack = <<>>
    /\ isDragging = FALSE
    /\ dragClipId = NullId
    /\ dragOriginalStart = 0
    /\ now = 0
    /\ rnd = 0
    /\ lastOp = [op |-> "init", id |-> NullId, time |-> 0, file |-> "none", prev |-> "init"]
    /\ pre = NoPre
    /\ ops = budget

Init == InitEditor(MaxOps) /\ InitThumbs /\ InitSilence /\ InitSync

Next ==
    \/ \E f \in Files, t \in DropTimes : AddClipToTimeline(f, t)
    \/ \E f \in Files : AddToTimelineSmart(f)
    \/ \E t \in ClickTimes : TimelineClick(t)
    \/ \E id \in ClipIds : HandleMouseDown(id)
    \/ \E d \in DragDeltas : HandleMouseMove(d)
    \/ \E target \in {0, 1} : HandleMouseUp(target)
    \/ DeleteClip
    \/ SplitClip
    \/ ExtractAudio
    \/ \E v \in VolumeValues : VolumeInput(v)
    \/ CloseVolume
    \/ \E z \in ZoomValues : SetZoom(z)
    \/ Undo
    \/ Redo

Spec == Init /\ [][Next]_vars

\* The split tool at work: import, seek, select, split, undo, redo, with a
\* budget long enough for a split of one of several clips and its undo.
SplitFiles == { f \in Files : f.duration > 0 }

NextSplit ==
    \/ \E f \in SplitFiles : AddClipToTimeline(f, 0)
    \/ \E t \in ClickTimes : TimelineClick(t)
    \/ \E id \in ClipIds : HandleMouseDown(id)
    \/ HandleMouseUp(0)
    \/ SplitClip
    \/ SplitRefused
    \/ Undo
    \/ Redo

InitSplit == InitEditor(SplitOps) /\ InitThumbs /\ InitSilence /\ InitSync

SpecSplit == InitSplit /\ [][NextSplit]_vars

\* The history at its cap.  A session that imported one video and then
\* dragged its clip forth and back, one unit each time, has saved the empty
\* timeline and then the clip at 1, at 0, at 1, ...: SpecCap starts after n
\* such saves, one short of the cap, and goes on dragging, saving, undoing
\* and redoing.
DraggedClip(s) == NewClip(CHOOSE f \in Files : f.type = "video", RandomId("clip", 1), s)

DraggedTracks(s) == Push(EmptyTracks, "video", DraggedClip(s))

DraggedHistory(n) ==
    [i \in 1..n |->
        IF i = 1 THEN Stringify(EmptyTracks, NullId, 0, InitialZoom)
        ELSE Stringify(DraggedTracks(IF i % 2 = 0 THEN 1 ELSE 0),
                       DraggedClip(0).id, 0, InitialZoom)]

AfterDrags(n, budget) ==
    LET at == IF n % 2 = 0 THEN 1 ELSE 0
    IN  /\ media = {DraggedClip(0).mediaId}
        /\ tracks = DraggedTracks(at)
        /\ playbackTime = 0
        /\ isPlaying = FALSE
        /\ zoom = InitialZoom
        /\ selectedClipId = DraggedClip(0).id
        /\ historyStack = DraggedHistory(n)
        /\ redoStack = <<>>
        /\ isDragging = FALSE
        /\ dragClipId = NullId
        /\ dragOriginalStart = 1 - at
        /\ now = 0
        /\ rnd = 1
        /\ lastOp = [op |-> "mouseUp", id |-> DraggedClip(0).id, time |-> 0,
                     file |-> "none", prev |-> "mouseMove"]
        /\ pre = [tracks |-> DraggedTracks(at), selectedClipId |-> DraggedClip(0).id,
                  playbackTime |-> 0, zoom |-> InitialZoom,
                  historyStack |-> DraggedHistory(n - 1), redoStack |-> <<>>]
        /\ ops = budget

NextCap ==
    \/ \E id \in ClipIds : HandleMouseDown(id)
    \/ \E d \in DragDeltas : HandleMouseMove(d)
    \/ HandleMouseUp(0)
    \/ CloseVolume
    \/ Undo
    \/ Redo

InitCap == AfterDrags(HistoryCap - 1, CapOps) /\ InitThumbs /\ InitSilence /\ InitSync

SpecCap == InitCap /\ [][NextCap]_vars

\* the two stacks on their own: drags that save, undo() and redo() with
\* their early returns, from a history of one entry or of HistoryCap - 1
NextStacks ==
    \/ \E id \in ClipIds : HandleMouseDown(id)
    \/ \E d \in DragDeltas : HandleMouseMove(d)
    \/ HandleMouseUp(0)
    \/ Undo
    \/ Redo
    \/ UndoEmpty
    \/ RedoEmpty

InitStacks ==
    /\ \E n \in {1, HistoryCap - 1} : AfterDrags(n, CapOps)
    /\ InitThumbs /\ InitSilence /\ InitSync

SpecStacks == InitStacks /\ [][NextStacks]_vars

\* the thumbnail pipeline on its own: requests, timers and the answers of thumbVideo
ThumbUrls == {"u1", "u2"}
ThumbTimes == {4, 5}

NextThumb ==
    \/ \E url \in ThumbUrls, time \in ThumbTimes : QueueThumbnail(url, time)
    \/ TimerFires
    \/ SinkSeeked
    \/ SinkError
    \/ \E el \in attached : DetachElement(el)
    \/ TogglePlay

InitThumb == InitEditor(0) /\ InitThumbs /\ InitSilence /\ InitSync

SpecThumb == InitThumb /\ [][NextThumb]_vars

\* The player at work: import at chosen places, seek, play, pause, undo.
SyncDrops == {0}
SyncClicks == {1, MaxDur + 1}
TickDeltas == {1}
ClockSeeks == {0, 1}

NextSync ==
    \/ \E f \in SplitFiles, t \in SyncDrops : AddClipToTimeline(f, t)
    \/ \E t \in SyncClicks : TimelineClick(t)
    \/ TogglePlay
    \/ \E dt \in TickDeltas : Tick(dt)
    \/ Undo

InitSyncing == InitEditor(SyncOps) /\ InitThumbs /\ InitSilence /\ InitSync

SpecSync == InitSyncing /\ [][NextSync]_vars

\* The player of the port at work: import, seek, play, pause.
NextPlayer ==
    \/ \E f \in SplitFiles, t \in SyncDrops : AddClipToTimeline(f, t)
    \/ \E t \in SyncClicks : PlayerSeek(t)
    \/ PlayerTogglePlay
    \/ \E dt \in TickDeltas : PlayerTick(dt)

InitPlayer == InitEditor(SyncOps) /\ InitThumbs /\ InitSilence /\ InitSync

SpecPlayer == InitPlayer /\ [][NextPlayer]_vars

\* The clock of the port over one video clip of media "v": the whole file at
\* 0, or the second part of a split at ClockOffset that was dragged to 0.
ClockTracks ==
    { [video |-> <<[NewClip([id |-> "v", type |-> "video", duration |-> MaxDur],
                            RandomId("clip", 1), 0)
                      EXCEPT !.offset = o, !.duration = MaxDur - o]>>,
       audio |-> << <<>>, <<>> >>] : o \in {0, ClockOffset} }

InitClock ==
    /\ media = {"v"}
    /\ tracks \in ClockTracks
    /\ playbackTime = 0
    /\ isPlaying = FALSE
    /\ zoom = InitialZoom
    /\ selectedClipId = NullId
    /\ historyStack = <<>>
    /\ redoStack = <<>>
    /\ isDragging = FALSE
    /\ dragClipId = NullId
    /\ dragOriginalStart = 0
    /\ now = 0
    /\ rnd = 1
    /\ lastOp = [op |-> "init", id |-> NullId, time |-> 0, file |-> "none", prev |-> "init"]
    /\ pre = NoPre
    /\ ops = ClockOps
    /\ InitThumbs
    /\ InitSilence
    /\ InitSync

NextClock ==
    \/ \E t \in ClockSeeks : PlayerSeek(t)
    \/ PlayerTogglePlay
    \/ \E dt \in TickDeltas : PlayerTick(dt)
    \/ VideoReady
    \/ VideoWaiting
    \/ \E played \in TickDeltas : VideoPlays(played)

SpecClock == InitClock /\ [][NextClock]_vars

\* A timeline whose clips may point to media that state.media does not hold:
\* one video clip and one clip on each audio track, all at time 0, and any
\* part of their three media present.
DanglingMedia == {"v", "a", "b"}

DanglingTracks ==
    [video |-> <<NewClip([id |-> "v", type |-> "video", duration |-> MaxDur],
                         RandomId("clip", 1), 0)>>,
     audio |-> << <<NewClip([id |-> "a", type |-> "audio", duration |-> MaxDur],
                            RandomId("clip", 2), 0)>>,
                  <<NewClip([id |-> "b", type |-> "audio", duration |-> MaxDur],
                            RandomId("clip", 3), 0)>> >>]

InitDangling ==
    /\ media \in SUBSET DanglingMedia
    /\ tracks = DanglingTracks
    /\ playbackTime = 0
    /\ isPlaying = FALSE
    /\ zoom = InitialZoom
    /\ selectedClipId = NullId
    /\ historyStack = <<>>
    /\ redoStack = <<>>
    /\ isDragging = FALSE
    /\ dragClipId = NullId
    /\ dragOriginalStart = 0
    /\ now = 0
    /\ rnd = 3
    /\ lastOp = [op |-> "init", id |-> NullId, time |-> 0, file |-> "none", prev |-> "init"]
    /\ pre = NoPre
    /\ ops = SyncOps
    /\ InitThumbs
    /\ InitSilence
    /\ InitSync

NextDangling ==
    \/ \E t \in SyncClicks : TimelineClick(t)
    \/ TogglePlay
    \/ \E dt \in TickDeltas : Tick(dt)

SpecDangling == InitDangling /\ [][NextDangling]_vars

\* The filmstrip of one long clip: with the default zoom a clip of
\* PressureThumbs * 5 seconds is PressureThumbs thumbnails wide.
NextPressure ==
    \/ DrawThumbnails("u1", PressureThumbs)
    \/ TimerFires
    \/ SinkSeeked
    \/ TogglePlay

InitPressure == InitEditor(0) /\ InitThumbs /\ InitSilence /\ InitSync

SpecPressure == InitPressure /\ [][NextPressure]_vars

\* The filmstrip of a short clip over playback: timers run when they are due
\* and thumbVideo answers a seek in flight; play-pause clicks and failures of
\* the source come as they may, and nothing asks for the clip to be drawn again.
NextResume ==
    \/ DrawThumbnails("u1", ResumeThumbs)
    \/ TimerFires
    \/ SinkSeeked
    \/ SinkError
    \/ \E el \in attached : DetachElement(el)
    \/ TogglePlay

InitResume == InitEditor(0) /\ InitThumbs /\ InitSilence /\ InitSync

SpecResume ==
    /\ InitResume
    /\ [][NextResume]_vars
    /\ WF_vars(TimerFires)
    /\ WF_vars(SinkSeeked)

\* ------------------------------------------------------ silence removal ---
\* Math.floor(time * buffer.sampleRate)
ToSample(time) == time \div SamplePeriod

\* samples / buffer.sampleRate
ToTime(samples) == samples * SamplePeriod

\* Math.abs(data[i]), in units of 0.01; beyond the buffer data[i] is
\* undefined, its abs is NaN, and every comparison with it is false
Level(data, i) == IF i + 1 \in DOMAIN data THEN data[i + 1] ELSE 0

MaxOf(S) == IF S = {} THEN 0 ELSE CHOOSE x \in S : \A y \in S : y <= x

\* Math.max(0.01, maxVal * 0.03), times 100
Threshold(data, startSample, endSample) ==
    Max(100, 3 * MaxOf({ Level(data, i) : i \in startSample..(endSample - 1) }))

\* the body of the scan loop for the window that starts at sample i
ScanWindow(data, startSample, endSample, threshold, i, regions) ==
    LET localMax == MaxOf({ Level(data, i + j) :
                              j \in { k \in 0..(WindowSize - 1) : i + k < endSample } })
        start == Max(startSample, i - PaddingSamples)
        end == Min(endSample, i + WindowSize + PaddingSamples)
        n == Len(regions)
    IN  IF ~(100 * localMax > threshold) THEN regions
        ELSE IF n = 0 THEN <<[start |-> start, end |-> end]>>
        ELSE IF start <= regions[n].end
             THEN [regions EXCEPT ![n].end = Max(regions[n].end, end)]
             ELSE Append(regions, [start |-> start, end |-> end])

\* for (let i = startSample; i < endSample; i += windowSize)
RECURSIVE Scan(_, _, _, _, _, _)
Scan(data, startSample, endSample, threshold, i, regions) ==
    IF i >= endSample THEN regions
    ELSE Scan(data, startSample, endSample, threshold, i + WindowSize,
              ScanWindow(data, startSample, endSample, threshold, i, regions))

\* regions.filter(r => (r.end - r.start) / buffer.sampleRate > minSpeechDur)
LongEnough(r) == r.end - r.start > MinSpeechSamples

\* a scan that reports the whole window as speech
WholeWindow(data, offset, duration) ==
    <<[start |-> ToSample(offset), end |-> ToSample(offset + duration)]>>

\* removeSilenceTool: the speech segments, in samples, of clip window
\* [offset, offset + duration) of the buffer
SpeechSegments(data, offset, duration) ==
    LET startSample == ToSample(offset)
        endSample == ToSample(offset + duration)
    IN  SelectSeq(Scan(data, startSample, endSample,
                       Threshold(data, startSample, endSample), startSample, <<>>),
                  LongEnough)

\* segOffset and segDuration of the segments, in time
InTime(segs) ==
    [i \in DOMAIN segs |-> [start |-> ToTime(segs[i].start), end |-> ToTime(segs[i].end)]]

\* The media of a session with the silence tool: a speech recording and a
\* video with the same sound, loud at their first and last sample, and a
\* recording of silence.
SilenceFiles ==
    { [id |-> "s", type |-> "audio", duration |-> ToTime(SilenceSamples)],
      [id |-> "t", type |-> "video", duration |-> ToTime(SilenceSamples)],
      [id |-> "q", type |-> "audio", duration |-> ToTime(SilenceSamples)] }

\* buffer.getChannelData(0) of the decoded media
Samples(mediaId) ==
    [i \in 1..SilenceSamples |->
        IF mediaId # "q" /\ i \in {1, SilenceSamples} THEN 100 ELSE 0]

\* clip.volume || 1.0
OrDefault(volume) == IF volume = 0 THEN 100 ELSE volume

\* insertTime when segment i is placed
RECURSIVE InsertTime(_, _, _)
InsertTime(clip, segs, i) ==
    IF i = 1 THEN clip.startTime
    ELSE InsertTime(clip, segs, i - 1) + (segs[i - 1].end - segs[i - 1].start)

\* speechSegments.forEach: the clips built from the segments
SilenceClips(clip, segs, n) ==
    [i \in DOMAIN segs |->
        [id |-> RandomId("auto", n + i), mediaId |-> clip.mediaId,
         startTime |-> InsertTime(clip, segs, i),
         duration |-> segs[i].end - segs[i].start, offset |-> segs[i].start,
         type |-> clip.type, muted |-> clip.muted, volume |-> OrDefault(clip.volume)]]

\* t.splice(t.findIndex(c => c.id === id), 1)
SpliceOut(clips, id) ==
    LET hits == { i \in DOMAIN clips : clips[i].id = id }
    IN  IF hits = {} THEN clips
        ELSE RemoveAt(clips, CHOOSE i \in hits : \A j \in hits : i <= j)

\* removeSilenceTool: the tracks without the original clip and with the new
\* clips, which go to the video track or to the first audio track
SilenceTracks(t, clip, segs, n) ==
    LET removed == [video |-> FilterOut(t.video, clip.id),
                    audio |-> <<SpliceOut(t.audio[1], clip.id),
                                SpliceOut(t.audio[2], clip.id)>>]
        lane == IF clip.type = "video" THEN "video" ELSE "audio0"
    IN  WithLane(removed, lane, LaneOf(removed, lane) \o SilenceClips(clip, segs, n))

\* a history written after the clips were replaced
SavedAfter(h, r, before, after) == SaveState(h, r, after)

\* removeSilenceTool: saveState() stands before the first change of the tracks
SilenceSaved(h, r, before, after) == SaveState(h, r, before)

\* removeSilenceTool from the scan on, run on the clip object the call holds
Ripple(clip) ==
    LET segs == InTime(SpeechSegments(Samples(clip.mediaId), clip.offset, clip.duration))
        after == SilenceTracks(tracks, clip, segs, rnd)
        saved == SilenceSaved(historyStack, redoStack, Snapshot,
                              Stringify(after, selectedClipId, playbackTime, zoom))
    IN  /\ pre' = Editor
        /\ IF segs = <<>>
           THEN /\ lastOp' = [Op("noSpeech") EXCEPT !.id = clip.id]
                /\ UNCHANGED <<tracks, historyStack, redoStack, rnd>>
           ELSE /\ lastOp' = [Op("removeSilence") EXCEPT !.id = clip.id,
                                                       !.time = Len(segs)]
                /\ historyStack' = saved.historyStack
                /\ redoStack' = saved.redoStack
                /\ tracks' = after
                /\ rnd' = rnd + Len(segs)
        /\ UNCHANGED <<media, playbackTime, isPlaying, zoom, selectedClipId,
                       isDragging, dragClipId, dragOriginalStart, now>>

\* removeSilenceTool, called: with the buffer in waveformCache it runs to its
\* end, without it the call waits for fetch and decodeAudioData
RemoveSilenceTool ==
    LET loc == FindClipLocation(tracks, selectedClipId)
        clip == ClipAt(tracks, loc)
    IN  /\ ops > 0
        /\ selectedClipId # NullId
        /\ loc # NoLoc
        /\ ops' = ops - 1
        /\ UNCHANGED thumbVars
        /\ UNCHANGED <<detection, waveformCache>>
        /\ UNCHANGED syncVars
        /\ IF clip.mediaId \in waveformCache
           THEN /\ Ripple(clip)
                /\ JobFollows
           ELSE /\ silenceJob' = Append(silenceJob, [clip |-> clip, live |-> TRUE])
                /\ lastOp' = [Op("awaitBuffer") EXCEPT !.id = clip.id]
                /\ pre' = Editor
                /\ UNCHANGED <<media, tracks, playbackTime, isPlaying, zoom,
                               selectedClipId, historyStack, redoStack, isDragging,
                               dragClipId, dragOriginalStart, now, rnd>>

\* removeSilenceTool, resumed when decodeAudioData has answered call i
BufferDecoded(i) ==
    LET job == silenceJob[i]
        rest == RemoveAt(silenceJob, i)
    IN  /\ i \in DOMAIN silenceJob
        /\ waveformCache' = waveformCache \cup {job.clip.mediaId}
        /\ Ripple(job.clip)
        /\ silenceJob' = [k \in DOMAIN rest |-> Follow(rest[k], tracks')]
        /\ ops' = ops
        /\ UNCHANGED detection
        /\ UNCHANGED syncVars
        /\ UNCHANGED thumbVars

\* drawWaveform of an audio clip on the timeline: its fetch and decode have
\* answered and the buffer of the media is put into waveformCache
DrawWaveform(mediaId) ==
    /\ \E c \in AllClips(tracks) : c.type = "audio" /\ c.mediaId = mediaId
    /\ mediaId \notin waveformCache
    /\ waveformCache' = waveformCache \cup {mediaId}
    /\ UNCHANGED <<detection, silenceJob>>
    /\ UNCHANGED syncVars
    /\ UNCHANGED editorVars
    /\ UNCHANGED thumbVars

\* The silence tool at work: import, select, set the volume, remove silence,
\* undo, redo.
SilenceVolumes == {0}

NextSilence ==
    \/ \E f \in SilenceFiles : AddToTimelineSmart(f)
    \/ \E id \in ClipIds : HandleMouseDown(id)
    \/ \E target \in {0, 1} : HandleMouseUp(target)
    \/ \E v \in SilenceVolumes : VolumeInput(v)
    \/ RemoveSilenceTool
    \/ DeleteClip
    \/ SplitRefused
    \/ \E i \in 1..MaxClips : BufferDecoded(i)
    \/ \E m \in media : DrawWaveform(m)
    \/ Undo
    \/ Redo

InitSilenceTool == InitEditor(SilenceOps) /\ InitThumbs /\ InitSilence /\ InitSync

SpecSilence == InitSilenceTool /\ [][NextSilence]_vars

\* one run of the scan on its own
Detect ==
    /\ ~detection.done
    /\ detection' = [detection EXCEPT
                       !.segments = InTime(SpeechSegments(detection.data, detection.offset,
                                                          detection.duration)),
                       !.done = TRUE]
    /\ UNCHANGED <<silenceJob, waveformCache>>
    /\ UNCHANGED syncVars
    /\ UNCHANGED editorVars
    /\ UNCHANGED thumbVars

Levels == {0, 2, 100}

InitDetect ==
    /\ InitEditor(0)
    /\ InitThumbs
    /\ InitSync
    /\ silenceJob = <<>>
    /\ waveformCache = {}
    /\ detection \in [offset : 0..DetOffset, duration : 1..DetSpan,
                      data : [1..DetSamples -> Levels], segments : {<<>>},
                      done : {FALSE}]

NextDetect == Detect

SpecDetect == InitDetect /\ [][NextDetect]_vars

\* ================================================================ claims ===
Overlaps(a, b) == a.startTime < ClipEnd(b) /\ b.startTime < ClipEnd(a)

StateOf(e) == [tracks |-> e.tracks, selectedClipId |-> e.selectedClipId,
               playbackTime |-> e.playbackTime, zoom |-> e.zoom]

\* C1: undo() followed at once by redo() restores the state before the
\* undo(): tracks, selectedClipId, playbackTime, zoom, and both stacks.
C1_UndoRedoIdentity ==
    [][(lastOp.op = "undo" /\ lastOp'.op = "redo") => Editor' = pre]_vars

C1_Witness ==
    /\ lastOp.op = "redo"
    /\ lastOp.prev = "undo"
    /\ AllClips(tracks) # {}
    /\ Len(historyStack) > 0

\* C2: whenever a command changes tracks, the top of the undo stack is a
\* snapshot of the state just before the change.
C2_SavedBeforeChange ==
    [][(tracks' # tracks /\ lastOp'.op \notin {"undo", "redo"}) =>
          /\ Len(historyStack') > 0
          /\ Parse(Top(historyStack')) = StateOf(Editor)]_vars

C4_HistoryCapped ==
    /\ [](Len(historyStack) <= HistoryCap)
    /\ [][(/\ lastOp'.op \in {"save", "mouseUp"}
           /\ Len(historyStack) = HistoryCap
           /\ historyStack' # historyStack) =>
             /\ Len(historyStack') = HistoryCap
             /\ SubSeq(historyStack', 1, HistoryCap - 1) = Tail(historyStack)
             /\ Top(historyStack') = Snapshot']_vars

C4_Witness ==
    /\ lastOp.op = "mouseUp"
    /\ Len(pre.historyStack) = HistoryCap
    /\ Len(historyStack) = HistoryCap
    /\ historyStack # pre.historyStack

\* C5: every clip in every lane has startTime >= 0 and duration > 0.
C5_ClipsValid ==
    \A c \in AllClips(tracks) : c.startTime >= 0 /\ c.duration > 0

\* C6: with no drag in progress, two distinct clips of one audio lane have
\* disjoint intervals [startTime, startTime + duration).
C6_NoOverlapInLane ==
    ~isDragging =>
        \A l \in {1, 2} : \A i, j \in DOMAIN tracks.audio[l] :
            i # j => ~Overlaps(tracks.audio[l][i], tracks.audio[l][j])

\* C7: the split law.  The selected clip C, at index i of its lane, is
\* truncated in place to A; B is appended to the same lane; nothing else
\* changes.
SplitLaw(before, after, id, t) ==
    \E l \in {"video", "audio0", "audio1"} :
      \E i \in DOMAIN LaneOf(before, l) :
        LET lane == LaneOf(before, l)
            lane2 == LaneOf(after, l)
            C == lane[i]
        IN  /\ C.id = id
            /\ \A m \in {"video", "audio0", "audio1"} \ {l} :
                  LaneOf(after, m) = LaneOf(before, m)
            /\ Len(lane2) = Len(lane) + 1
            /\ \A j \in DOMAIN lane : j # i => lane2[j] = lane[j]
            /\ LET A == lane2[i]
                   B == lane2[Len(lane2)]
               IN  /\ A = [C EXCEPT !.duration = t - C.startTime]
                   /\ B.startTime = t
                   /\ B.duration = C.duration - A.duration
                   /\ B.offset = C.offset + A.duration
                   /\ A.duration + B.duration = C.duration
                   /\ A.duration > 0 /\ B.duration > 0
                   /\ B.mediaId = C.mediaId /\ B.type = C.type
                   /\ B.muted = C.muted /\ B.volume = C.volume

C7_SplitLaw ==
    [][lastOp'.op = "split" =>
          SplitLaw(tracks, tracks', selectedClipId, playbackTime)]_vars

C7_Witness ==
    /\ lastOp.op = "split"
    /\ Len(tracks.audio[1]) = 3

\* C8: one undo() right after the split of a video clip restores the state
\* before the split, and the audio lanes with it.
C8_UndoAfterSplit ==
    [][(/\ lastOp.op = "split"
        /\ lastOp'.op = "undo"
        /\ FindClipLocation(pre.tracks, pre.selectedClipId).lane = "video") =>
          /\ StateOf(Editor') = StateOf(pre)
          /\ tracks'.audio = tracks.audio]_vars

C8_Witness ==
    /\ lastOp.op = "undo"
    /\ lastOp.prev = "split"
    /\ Len(tracks.video) = 1
    /\ tracks.video[1].duration = MaxDur
    /\ Len(tracks.audio[1]) = 1

\* C9: addClip of an audio media appends one clip, its start clamped to
\* max(0, startTime), to lane 0 if it overlaps no lane-0 clip and otherwise
\* to lane 1; no existing clip changes.  Two intervals overlap when each
\* starts before the other ends.
AddClipLaw(before, after, f, startTime) ==
    LET new == [startTime |-> Max(0, startTime), duration |-> f.duration]
        lane == IF \E i \in DOMAIN before.audio[1] : Overlaps(new, before.audio[1][i])
                THEN 2 ELSE 1
        added == after.audio[lane][Len(after.audio[lane])]
    IN  /\ after.video = before.video
        /\ after.audio[3 - lane] = before.audio[3 - lane]
        /\ Len(after.audio[lane]) = Len(before.audio[lane]) + 1
        /\ SubSeq(after.audio[lane], 1, Len(before.audio[lane])) = before.audio[lane]
        /\ added.startTime = new.startTime
        /\ added.duration = new.duration
        /\ added.mediaId = f.id

C10_OneCaptureInFlight ==
    /\ [](Cardinality(pending) <= 1 /\ (pending # {} => isProcessingThumbs))
    /\ [][/\ (pending' \ pending # {}) => (~isProcessingThumbs /\ pending = {})
          /\ (isProcessingThumbs /\ ~isProcessingThumbs') =>
                (pending # {} /\ pending' = {})]_vars

C10_Witness ==
    /\ pending = {2}
    /\ isProcessingThumbs
    /\ \E i \in DOMAIN listeners : listeners[i].task.id = 1
\* C11: when a capture is started for a task, every listener registered on
\* thumbVideo belongs to that task: none of an earlier task is left; and so
\* the frame cached under a key is a frame of the media of that key.
C11_NoListenerLeft ==
    /\ [][\A t \in started' \ started :
             \A i \in DOMAIN listeners' : listeners'[i].task.id = t.id]_vars
    /\ [](\A k \in DOMAIN thumbCache : thumbCache[k][1] = k[1])

C13_NoCaptureWhilePlaying ==
    [][(started' # started \/ pending' \ pending # {}) => ~isPlaying]_vars

C13_Witness ==
    /\ isPlaying
    /\ nextTask = 1
    /\ thumbQueue = <<>>
    /\ started = {}
    /\ 1 \in attached

\* C14: a run of the queue processing while isPlaying is true removes a
\* task from the queue only to serve it from the cache or because its
\* element has left the document.
C14_NoTaskLostToPlayback ==
    [][isPlaying =>
          \A i \in DOMAIN thumbQueue :
              \/ thumbQueue[i] \in Range(thumbQueue')
              \/ Cached(thumbCache, thumbQueue[i].key)
              \/ thumbQueue[i].el \notin attached]_vars

RECURSIVE SumDurations(_)
SumDurations(segs) ==
    IF segs = <<>> THEN 0
    ELSE (Head(segs).end - Head(segs).start) + SumDurations(Tail(segs))

Ordered(segs) ==
    /\ \A i \in DOMAIN segs : segs[i].start < segs[i].end
    /\ \A i, j \in DOMAIN segs : i < j => segs[i].end <= segs[j].start

\* the clips a silence removal has generated, given the count of random
\* suffixes drawn before it
OutputClips(t, n) == { c \in AllClips(t) : c.id[1] = "auto" /\ c.id[3] > n }

\* C16: a silence removal that takes clip c off the timeline puts one clip
\* per speech segment on it; in segment order the first starts at
\* c.startTime and each next one where the one before it ends; each has the
\* offset and the duration of its segment and the mediaId, muted and volume
\* of c.
C16_RippleLaw ==
    [][(/\ lastOp'.op = "removeSilence"
        /\ FindClipLocation(tracks, lastOp'.id) # NoLoc) =>
          LET c == ClipAt(tracks, FindClipLocation(tracks, lastOp'.id))
              segs == InTime(SpeechSegments(Samples(c.mediaId), c.offset, c.duration))
              out == OutputClips(tracks', rnd)
          IN  /\ Cardinality(out) = Len(segs)
              /\ \A k \in DOMAIN segs : \E o \in out :
                    /\ o.id[3] = rnd + k
                    /\ o.startTime = c.startTime + SumDurations(SubSeq(segs, 1, k - 1))
                    /\ o.offset = segs[k].start
                    /\ o.duration = segs[k].end - segs[k].start
                    /\ o.mediaId = c.mediaId
                    /\ o.muted = c.muted
                    /\ o.volume = c.volume]_vars

\* C17: the speech segments of a scan are ordered, pairwise non-overlapping
\* and inside the clip window [offset, offset + duration), and their
\* durations sum to at most the duration of the clip.
C17_SegmentsInWindow ==
    detection.done =>
        /\ Ordered(detection.segments)
        /\ \A i \in DOMAIN detection.segments :
              /\ detection.offset <= detection.segments[i].start
              /\ detection.segments[i].end <= detection.offset + detection.duration
        /\ SumDurations(detection.segments) <= detection.duration

\* the samples of the window of clip c are all below the floor of the threshold
SilentWindow(c) ==
    \A i \in ToSample(c.offset)..(ToSample(c.offset + c.duration) - 1) :
        Level(Samples(c.mediaId), i) = 0

\* C18: a silence removal that finds no speech segment changes nothing:
\* tracks, selectedClipId, the undo stack and the redo stack stay as they
\* are and no clip is generated; a removal run on a clip whose window is
\* silent finds no segment.
C18_NoSpeechNoChange ==
    /\ [][lastOp'.op = "noSpeech" =>
             /\ tracks' = tracks
             /\ selectedClipId' = selectedClipId
             /\ historyStack' = historyStack
             /\ redoStack' = redoStack]_vars
    /\ [][(/\ lastOp'.op \in {"noSpeech", "removeSilence"}
           /\ FindClipLocation(tracks, lastOp'.id) # NoLoc
           /\ SilentWindow(ClipAt(tracks, FindClipLocation(tracks, lastOp'.id)))) =>
             lastOp'.op = "noSpeech"]_vars

C18_Witness ==
    /\ lastOp.op = "noSpeech"
    /\ selectedClipId = lastOp.id
    /\ Len(tracks.audio[1]) = 1
    /\ tracks.audio[1][1].mediaId = "q"
    /\ Len(historyStack) = 1
    /\ silenceJob = <<>>

C20_UnknownIdNoOp ==
    [][(/\ lastOp'.op \in {"delete", "split", "splitRefused"}
        /\ selectedClipId # NullId
        /\ FindClipLocation(tracks, selectedClipId) = NoLoc) =>
          /\ tracks' = tracks
          /\ selectedClipId' = selectedClipId
          /\ historyStack' = historyStack
          /\ redoStack' = redoStack]_vars

\* the clips of a lane that do not have the id, in their order
Without(clips, id) ==
    LET keep == { i \in DOMAIN clips : clips[i].id # id }
        RECURSIVE Pick(_)
        Pick(i) == IF i > Len(clips) THEN <<>>
                   ELSE IF i \in keep THEN <<clips[i]>> \o Pick(i + 1)
                   ELSE Pick(i + 1)
    IN  Pick(1)

C22_PushClearsRedo ==
    [][(lastOp'.op \notin {"undo", "redo"} /\ historyStack' # historyStack) =>
          redoStack' = <<>>]_vars

C22_Witness ==
    /\ lastOp.prev = "undo"
    /\ lastOp.op = "addSmart"
    /\ Len(pre.redoStack) = 1
    /\ Len(historyStack) = Len(pre.historyStack) + 1
    /\ redoStack = <<>>

\* the entries of stack old that are still on stack new are what they were
Prefix(old, new) == \A i \in 1..Min(Len(old), Len(new)) : new[i] = old[i]

KeptEntries(old, new) ==
    \/ Prefix(old, new)
    \/ Len(old) = HistoryCap /\ Prefix(Tail(old), new)

SyncSteps == {"click", "undo", "redo", "volume", "tick"}

ActiveAt(clips, time) == { i \in DOMAIN clips : Active(clips[i], time) }

\* C24: at every playback time at most one clip of the video lane is
\* active; after a syncMedia() call the video element shows an active clip,
\* at the media time of the playhead within the tolerance of the call, and
\* with no active clip it is paused and hidden.
C24_ActiveVideoUnique ==
    /\ [](\A t \in 0..MaxTime : Cardinality(ActiveAt(tracks.video, t)) <= 1)
    /\ [][lastOp'.op \in SyncSteps =>
             LET hits == ActiveAt(tracks'.video, playbackTime')
             IN  IF hits = {} THEN mainVideo'.paused /\ ~mainVideo'.visible
                 ELSE \E i \in hits :
                         LET c == tracks'.video[i]
                             clipTime == playbackTime' - c.startTime + c.offset
                         IN  /\ mainVideo'.src = c.mediaId
                             /\ mainVideo'.visible
                             /\ mainVideo'.currentTime - clipTime <= SyncTolerance
                             /\ clipTime - mainVideo'.currentTime <= SyncTolerance]_vars

ActiveAudioIds(t, time) == { c.id : c \in { x \in Range(t.audio[1]) \cup Range(t.audio[2]) :
                                              Active(x, time) } }

\* C25: after a syncMedia() call the audio pool holds one element for the id
\* of each active audio clip of either lane, made from the media of the
\* clip, and none for another id; the call makes an element only for an
\* active id that had none, and the elements of the ids that are active no
\* more were paused, disconnected and taken out of the pool.
C25_PoolMatchesActive ==
    [][lastOp'.op \in SyncSteps =>
          LET ids == ActiveAudioIds(tracks', playbackTime')
          IN  /\ DOMAIN audioPool' = ids
              /\ \A c \in Range(tracks'.audio[1]) \cup Range(tracks'.audio[2]) :
                    c.id \in ids => audioPool'[c.id].src = c.mediaId
              /\ syncPass'.created = ids \ DOMAIN audioPool
              /\ \A id \in DOMAIN audioPool \cap ids : audioPool'[id].src = audioPool[id].src
              /\ syncPass'.removed =
                    { [id |-> k, paused |-> TRUE, connected |-> FALSE] :
                         k \in DOMAIN audioPool \ ids }]_vars

C25_Witness ==
    /\ lastOp.op = "click"
    /\ lastOp.prev = "click"
    /\ Cardinality(syncPass.removed) = 2
    /\ audioPool = <<>>
    /\ Len(tracks.audio[1]) = 1
    /\ Len(tracks.audio[2]) = 1

\* the step ran a reconciliation pass: a handler that ends with syncMedia(),
\* a frame of the render loop of the port, or the effect of the port, which
\* runs when the editor is paused and playbackTime or isPlaying is new
PassRan ==
    \/ lastOp'.op \in SyncSteps \cup {"playerTick"}
    \/ /\ lastOp'.op \in {"playerSeek", "playerToggle"}
       /\ ~isPlaying'
       /\ playbackTime' # playbackTime \/ isPlaying' # isPlaying

\* C26: after a reconciliation pass the elements match isPlaying: when it is
\* false the video element and every element of the audio pool are paused,
\* when it is true the element of every active clip has been started.
C26_SinksMatchPlaying ==
    [][PassRan =>
          IF ~isPlaying'
          THEN /\ mainVideo'.paused
               /\ \A id \in DOMAIN audioPool' : audioPool'[id].paused
          ELSE /\ ActiveAt(tracks'.video, playbackTime') # {} => ~mainVideo'.paused
               /\ \A id \in ActiveAudioIds(tracks', playbackTime') :
                     id \in DOMAIN audioPool' /\ ~audioPool'[id].paused]_vars
\* the clip points to a media item that state.media holds
HasMedia(c) == c.mediaId \in media

C28_QueueBounded == Len(thumbQueue) <= QueueBound

\* C29: an 'error' of thumbVideo that ends a capture writes no image and no
\* cache entry, releases the busy flag and sets the timer that starts the next
\* task; and a task whose capture failed gets an image, or a cache entry under
\* its key, only from a capture of that key that did not fail, so that a later
\* request of the key is captured again.
C29_FailureLeavesNothing ==
    /\ [][(failed' # failed) =>
             /\ thumbCache' = thumbCache
             /\ background' = background
             /\ ~isProcessingThumbs'
             /\ timers' > timers]_vars
    /\ [](\A t \in started :
            (t.id \in failed /\ (t.el \in DOMAIN background \/ Cached(thumbCache, t.key)))
               => \E s \in started : s.key = t.key /\ s.id \notin failed)

\* the task of thumbnail id waits in the queue
InQueue(id) == \E i \in DOMAIN thumbQueue : thumbQueue[i].id = id

\* the task of thumbnail id has left the queue for a capture, for the cached
\* frame, or because its element is in the document no more
Resolved(id) ==
    /\ ~InQueue(id)
    /\ \/ \E t \in started : t.id = id
       \/ id \in DOMAIN background
       \/ id \notin attached

\* C30: if playback stops and stays stopped, every task that waits in the
\* queue is in the end started, served from the cache or pruned, with no new
\* thumbnail request.
C30_HeldBackResumes ==
    <>[](~isPlaying) =>
        \A id \in 1..ResumeThumbs : [](InQueue(id) => <>Resolved(id))

\* C31: a play-pause click flips isPlaying; the click that pauses leaves the
\* video element and every element of the audio pool paused, and raises no
\* error, whatever the pool holds.
C31_PauseStopsAllSinks ==
    [][lastOp'.op = "playPause" =>
          /\ isPlaying' = ~isPlaying
          /\ ~isPlaying' =>
                /\ mainVideo'.paused
                /\ \A id \in DOMAIN audioPool' : audioPool'[id].paused
                /\ ~syncPass'.error]_vars

\* the time of the video element on the clock of the timeline, for the first
\* clip of the video lane under the playhead
VideoClock ==
    LET c == tracks.video[FindActive(tracks.video, playbackTime)]
    IN  c.startTime + mainVideo.currentTime - c.offset

\* the conditions under which a frame adopts the time of the video element
Drives ==
    /\ ActiveAt(tracks.video, playbackTime) # {}
    /\ ~mainVideo.paused
    /\ mainVideo.ready
    /\ VideoClock - playbackTime < DriveWindow
    /\ playbackTime - VideoClock < DriveWindow

\* C32: a frame while playing sets the clock to the time of the video element
\* when there is an active video clip, the element is not paused, has data and
\* its time is within 0.5 s of the clock; in every other case the clock
\* advances by the measured delta; a frame while paused leaves the clock.
C32_ClockLaw ==
    [][lastOp'.op \in {"playerTick", "playerIdle"} =>
          IF ~isPlaying THEN playbackTime' = playbackTime
          ELSE IF Drives THEN playbackTime' = VideoClock
          ELSE playbackTime' = playbackTime + lastOp'.time]_vars

C32_Witness ==
    /\ lastOp.op = "playerTick"
    /\ lastOp.prev = "playerTick"
    /\ isPlaying
    /\ playbackTime = pre.playbackTime
    /\ mainVideo.ready

\* C37: a frame while playing never moves the clock back, whether it adds the
\* delta or adopts the time of the video element.
C37_ClockMonotone ==
    [][lastOp'.op = "playerTick" => playbackTime' >= playbackTime]_vars

\* C38: playbackTime is never negative.
C38_ClockNotNegative == playbackTime >= 0

\* C33: the audio of a media id is decoded at most once: a decode that
\* completes for a waiting silence removal puts a buffer into waveformCache
\* that was not there, also when other requests for the media id were made
\* before it completed.
C33_DecodeOnce ==
    [][Len(silenceJob') < Len(silenceJob) => waveformCache' # waveformCache]_vars

\* C34: a silence removal that resumes after its decode and changes the
\* timeline works on a clip that is on the timeline, as the clip is then: the
\* new clips are those of its startTime, offset and duration of that moment.
C34_ResumeSeesCurrentClip ==
    [][(Len(silenceJob') < Len(silenceJob) /\ lastOp'.op = "removeSilence") =>
          LET loc == FindClipLocation(tracks, lastOp'.id)
              clip == ClipAt(tracks, loc)
              segs == InTime(SpeechSegments(Samples(clip.mediaId), clip.offset,
                                            clip.duration))
          IN  /\ loc # NoLoc
              /\ tracks' = SilenceTracks(tracks, clip, segs, rnd)]_vars

\* C35: every clip id occurs at one place of the video lane and the audio
\* lanes.
C35_IdsUnique ==
    \A lane \in Range(Lanes) : \A i \in DOMAIN LaneOf(tracks, lane) :
        \A other \in Range(Lanes) : \A j \in DOMAIN LaneOf(tracks, other) :
            LaneOf(tracks, lane)[i].id = LaneOf(tracks, other)[j].id
                => (lane = other /\ i = j)

\* C36: the clips that a silence removal makes are put on the lane that held
\* the clip they replace.
C36_SilenceKeepsLane ==
    [][lastOp'.op = "removeSilence" =>
          LET loc == FindClipLocation(tracks, lastOp'.id)
          IN  loc # NoLoc =>
                \A lane \in Range(Lanes) :
                    \A c \in Range(LaneOf(tracks', lane)) \ Range(LaneOf(tracks, lane)) :
                        lane = loc.lane]_vars

\* C39: the undo stack and the redo stack together never hold more than
\* HistoryCap snapshots; undo() takes one entry off the undo stack and puts
\* one on the redo stack, redo() does the reverse, and neither changes the
\* sum; undo() with an empty undo stack and redo() with an empty redo stack
\* change nothing.
C39_StacksBounded ==
    /\ [](Len(historyStack) + Len(redoStack) <= HistoryCap)
    /\ [][lastOp'.op = "undo" =>
             /\ Len(historyStack') = Len(historyStack) - 1
             /\ Len(redoStack') = Len(redoStack) + 1
             /\ historyStack' = Pop(historyStack)
             /\ Pop(redoStack') = redoStack]_vars
    /\ [][lastOp'.op = "redo" =>
             /\ Len(redoStack') = Len(redoStack) - 1
             /\ Len(historyStack') = Len(historyStack) + 1
             /\ redoStack' = Pop(redoStack)
             /\ Pop(historyStack') = historyStack]_vars
    /\ [][lastOp'.op \in {"undoEmpty", "redoEmpty"} =>
             /\ Editor' = Editor
             /\ UNCHANGED <<thumbVars, silenceVars, syncVars>>]_vars

C39_Witness ==
    /\ lastOp.op = "undo"
    /\ Len(redoStack) = 2
    /\ Len(historyStack) + Len(redoStack) = HistoryCap

C39_WitnessEmpty ==
    /\ lastOp.op = "undoEmpty"
    /\ lastOp.prev = "undo"
    /\ Len(redoStack) = 1
====
